---- MODULE Spec2Model ----
(***************************************************************************)
(* Model of build.rs of rusty_ffmpeg: the build script that reads seven    *)
(* environment variables, selects a linking strategy, emits cargo linker   *)
(* directives and produces OUT_DIR/binding.rs.                              *)
(*                                                                         *)
(* Strings are sequences of one-character strings, so that format!, file   *)
(* stem extraction, prefix trimming and path popping are computed on the   *)
(* characters.  An Option<String> is a sequence of length 0 (None) or 1    *)
(* (Some(v)).                                                              *)
(***************************************************************************)
EXTENDS Integers, Sequences, FiniteSets, TLC

\* ------------------------------------------------------------------ bounds
\* Largest number of leading "lib" repetitions in a sampled library file name.
MaxLibRepeat == 2
\* Largest number of dot-extensions in a sampled library file name.
MaxExtensions == 2

\* ------------------------------------------------------------ Option<T>
None == << >>
Some(v) == << v >>
is_some(o) == Len(o) = 1
unwrap(o) == o[1]

\* ------------------------------------------------------- static registries
LIBS ==
  << <<"a","v","c","o","d","e","c">>,
     <<"a","v","d","e","v","i","c","e">>,
     <<"a","v","f","i","l","t","e","r">>,
     <<"a","v","f","o","r","m","a","t">>,
     <<"a","v","u","t","i","l">>,
     <<"s","w","r","e","s","a","m","p","l","e">>,
     <<"s","w","s","c","a","l","e">> >>
HEADERS ==
  << <<"l","i","b","a","v","c","o","d","e","c","/","a","v","c","o","d","e","c",".","h">>,
     <<"l","i","b","a","v","c","o","d","e","c","/","a","v","f","f","t",".","h">>,
     <<"l","i","b","a","v","c","o","d","e","c","/","d","v","_","p","r","o","f","i","l","e",".","h">>,
     <<"l","i","b","a","v","c","o","d","e","c","/","v","o","r","b","i","s","_","p","a","r","s","e","r",".","h">>,
     <<"l","i","b","a","v","d","e","v","i","c","e","/","a","v","d","e","v","i","c","e",".","h">>,
     <<"l","i","b","a","v","f","i","l","t","e","r","/","a","v","f","i","l","t","e","r",".","h">>,
     <<"l","i","b","a","v","f","i","l","t","e","r","/","b","u","f","f","e","r","s","i","n","k",".","h">>,
     <<"l","i","b","a","v","f","i","l","t","e","r","/","b","u","f","f","e","r","s","r","c",".","h">>,
     <<"l","i","b","a","v","f","o","r","m","a","t","/","a","v","f","o","r","m","a","t",".","h">>,
     <<"l","i","b","a","v","f","o","r","m","a","t","/","a","v","i","o",".","h">>,
     <<"l","i","b","a","v","u","t","i","l","/","a","d","l","e","r","3","2",".","h">>,
     <<"l","i","b","a","v","u","t","i","l","/","a","e","s",".","h">>,
     <<"l","i","b","a","v","u","t","i","l","/","a","u","d","i","o","_","f","i","f","o",".","h">>,
     <<"l","i","b","a","v","u","t","i","l","/","a","v","s","t","r","i","n","g",".","h">>,
     <<"l","i","b","a","v","u","t","i","l","/","a","v","u","t","i","l",".","h">>,
     <<"l","i","b","a","v","u","t","i","l","/","b","a","s","e","6","4",".","h">>,
     <<"l","i","b","a","v","u","t","i","l","/","b","l","o","w","f","i","s","h",".","h">>,
     <<"l","i","b","a","v","u","t","i","l","/","b","p","r","i","n","t",".","h">>,
     <<"l","i","b","a","v","u","t","i","l","/","b","u","f","f","e","r",".","h">>,
     <<"l","i","b","a","v","u","t","i","l","/","c","a","m","e","l","l","i","a",".","h">>,
     <<"l","i","b","a","v","u","t","i","l","/","c","a","s","t","5",".","h">>,
     <<"l","i","b","a","v","u","t","i","l","/","c","h","a","n","n","e","l","_","l","a","y","o","u","t",".","h">>,
     <<"l","i","b","a","v","u","t","i","l","/","c","p","u",".","h">>,
     <<"l","i","b","a","v","u","t","i","l","/","c","r","c",".","h">>,
     <<"l","i","b","a","v","u","t","i","l","/","d","i","c","t",".","h">>,
     <<"l","i","b","a","v","u","t","i","l","/","d","i","s","p","l","a","y",".","h">>,
     <<"l","i","b","a","v","u","t","i","l","/","d","o","w","n","m","i","x","_","i","n","f","o",".","h">>,
     <<"l","i","b","a","v","u","t","i","l","/","e","r","r","o","r",".","h">>,
     <<"l","i","b","a","v","u","t","i","l","/","e","v","a","l",".","h">>,
     <<"l","i","b","a","v","u","t","i","l","/","f","i","f","o",".","h">>,
     <<"l","i","b","a","v","u","t","i","l","/","f","i","l","e",".","h">>,
     <<"l","i","b","a","v","u","t","i","l","/","f","r","a","m","e",".","h">>,
     <<"l","i","b","a","v","u","t","i","l","/","h","a","s","h",".","h">>,
     <<"l","i","b","a","v","u","t","i","l","/","h","m","a","c",".","h">>,
     <<"l","i","b","a","v","u","t","i","l","/","h","w","c","o","n","t","e","x","t","_","d","r","m",".","h">>,
     <<"l","i","b","a","v","u","t","i","l","/","i","m","g","u","t","i","l","s",".","h">>,
     <<"l","i","b","a","v","u","t","i","l","/","l","f","g",".","h">>,
     <<"l","i","b","a","v","u","t","i","l","/","l","o","g",".","h">>,
     <<"l","i","b","a","v","u","t","i","l","/","m","a","c","r","o","s",".","h">>,
     <<"l","i","b","a","v","u","t","i","l","/","m","a","t","h","e","m","a","t","i","c","s",".","h">>,
     <<"l","i","b","a","v","u","t","i","l","/","m","d","5",".","h">>,
     <<"l","i","b","a","v","u","t","i","l","/","m","e","m",".","h">>,
     <<"l","i","b","a","v","u","t","i","l","/","m","o","t","i","o","n","_","v","e","c","t","o","r",".","h">>,
     <<"l","i","b","a","v","u","t","i","l","/","m","u","r","m","u","r","3",".","h">>,
     <<"l","i","b","a","v","u","t","i","l","/","o","p","t",".","h">>,
     <<"l","i","b","a","v","u","t","i","l","/","p","a","r","s","e","u","t","i","l","s",".","h">>,
     <<"l","i","b","a","v","u","t","i","l","/","p","i","x","d","e","s","c",".","h">>,
     <<"l","i","b","a","v","u","t","i","l","/","p","i","x","f","m","t",".","h">>,
     <<"l","i","b","a","v","u","t","i","l","/","r","a","n","d","o","m","_","s","e","e","d",".","h">>,
     <<"l","i","b","a","v","u","t","i","l","/","r","a","t","i","o","n","a","l",".","h">>,
     <<"l","i","b","a","v","u","t","i","l","/","r","e","p","l","a","y","g","a","i","n",".","h">>,
     <<"l","i","b","a","v","u","t","i","l","/","r","i","p","e","m","d",".","h">>,
     <<"l","i","b","a","v","u","t","i","l","/","s","a","m","p","l","e","f","m","t",".","h">>,
     <<"l","i","b","a","v","u","t","i","l","/","s","h","a",".","h">>,
     <<"l","i","b","a","v","u","t","i","l","/","s","h","a","5","1","2",".","h">>,
     <<"l","i","b","a","v","u","t","i","l","/","s","t","e","r","e","o","3","d",".","h">>,
     <<"l","i","b","a","v","u","t","i","l","/","t","h","r","e","a","d","m","e","s","s","a","g","e",".","h">>,
     <<"l","i","b","a","v","u","t","i","l","/","t","i","m","e",".","h">>,
     <<"l","i","b","a","v","u","t","i","l","/","t","i","m","e","c","o","d","e",".","h">>,
     <<"l","i","b","a","v","u","t","i","l","/","t","w","o","f","i","s","h",".","h">>,
     <<"l","i","b","a","v","u","t","i","l","/","x","t","e","a",".","h">>,
     <<"l","i","b","s","w","r","e","s","a","m","p","l","e","/","s","w","r","e","s","a","m","p","l","e",".","h">>,
     <<"l","i","b","s","w","s","c","a","l","e","/","s","w","s","c","a","l","e",".","h">> >>

\* ---------------------------------------------------------- string helpers
S_lib == <<"l","i","b">>
S_slash == <<"/">>
S_binding_rs == <<"b","i","n","d","i","n","g",".","r","s">>
S_src_binding_rs == <<"s","r","c","/","b","i","n","d","i","n","g",".","r","s">>
S_dash_I == <<"-","I">>

StartsWith(s, p) == Len(s) >= Len(p) /\ SubSeq(s, 1, Len(p)) = p
EndsWith(s, p) == Len(s) >= Len(p) /\ SubSeq(s, Len(s) - Len(p) + 1, Len(s)) = p
\* s contains two adjacent separators.
HasDoubleSlash(s) == \E i \in 1..(Len(s) - 1) : s[i] = "/" /\ s[i + 1] = "/"

\* ------------------------------------------------- std::path on characters
RECURSIVE StripTrailingSep(_)
\* Trailing separators are not part of a path's last component; the root stays.
StripTrailingSep(s) ==
  IF Len(s) > 1 /\ s[Len(s)] = "/" THEN StripTrailingSep(SubSeq(s, 1, Len(s) - 1)) ELSE s

RECURSIVE DropLastComponent(_)
DropLastComponent(s) ==
  IF s = << >> \/ s[Len(s)] = "/" THEN s ELSE DropLastComponent(SubSeq(s, 1, Len(s) - 1))

RECURSIVE LastComponent(_)
LastComponent(s) ==
  IF s = << >> \/ s[Len(s)] = "/" THEN << >>
  ELSE LastComponent(SubSeq(s, 1, Len(s) - 1)) \o << s[Len(s)] >>

\* Path::file_name: the last component when it is a normal one (None for the
\* root, for an empty path and for a path that ends in '..' or is '.').
file_name(path) ==
  LET last == LastComponent(StripTrailingSep(path))
  IN IF last = << >> \/ last = <<".", ".">> \/ last = <<".">> THEN None ELSE Some(last)

\* Index of the last "." of a name, 0 when there is none.
LastDot(name) ==
  IF \E i \in 1..Len(name) : name[i] = "."
  THEN CHOOSE i \in 1..Len(name) :
         name[i] = "." /\ \A j \in (i + 1)..Len(name) : name[j] # "."
  ELSE 0

\* Path::file_stem: the file name up to, not including, its LAST dot; the whole
\* name when it has no dot or only a leading one.
file_stem(path) ==
  LET fname == file_name(path)
  IN IF ~is_some(fname) THEN None
     ELSE LET name == unwrap(fname)
              d == LastDot(name)
          IN IF d <= 1 THEN Some(name) ELSE Some(SubSeq(name, 1, d - 1))

RECURSIVE trim_start_matches(_, _)
\* str::trim_start_matches: removes the prefix repeatedly.
trim_start_matches(s, p) ==
  IF p # << >> /\ StartsWith(s, p)
  THEN trim_start_matches(SubSeq(s, Len(p) + 1, Len(s)), p)
  ELSE s

\* PathBuf::pop: truncates the path to its parent.
pop(path) == StripTrailingSep(DropLastComponent(StripTrailingSep(path)))

\* ------------------------------------------------------------ sampled inputs
V_docs_rs == <<"1">>
V_out_dir == <<"/","o","u","t">>
V_include_dirs == { <<"/","o","p","t","/","i","n","c","l","u","d","e">>,
                    <<"/","o","p","t","/","i","n","c","l","u","d","e","/">> }
V_pkg_config_path == <<"/","o","p","t","/","p","c">>
V_libs_dir == <<"/","o","p","t","/","l","i","b">>
V_binding_path == <<"/","b",".","r","s">>

\* Library file names: "lib" repeated k times, a base name, then e extensions
\* (".so", then version numbers as in libav.so.58).
RECURSIVE Repeat(_, _)
Repeat(s, k) == IF k = 0 THEN << >> ELSE s \o Repeat(s, k - 1)
RECURSIVE Extensions(_)
Extensions(e) ==
  IF e = 0 THEN << >>
  ELSE IF e = 1 THEN <<".","s","o">>
  ELSE Extensions(e - 1) \o <<".","5">>
DllLocations == { << <<"/","l","i","b","/">>, <<"f","o","o">> >>,
                  << <<"/","o","p","t","/","l","i","b","/">>, <<"a","v">> >> }
DllPaths ==
  { loc[1] \o Repeat(S_lib, k) \o loc[2] \o Extensions(e) :
      loc \in DllLocations, k \in 0..MaxLibRepeat, e \in 0..MaxExtensions }
  \cup { S_slash }

\* Include directories a probe (pkg-config or vcpkg) may report.
ProbeIncludeDirs == { <<"/","a","/","i","n","c">>, <<"/","b","/","i","n","c">> }

\* Macro names the parsing engine may ask the callback about.
FP_MACROS == { <<"F","P","_","N","A","N">>,
               <<"F","P","_","I","N","F","I","N","I","T","E">>,
               <<"F","P","_","Z","E","R","O">>,
               <<"F","P","_","S","U","B","N","O","R","M","A","L">>,
               <<"F","P","_","N","O","R","M","A","L">> }
OtherMacros == { <<"F","P","_","N","A","N","S">>,
                 <<"F","P","_">>,
                 <<"f","p","_","n","a","n">>,
                 <<"A","V","_","N","O","P","T","S">> }
MacroNames == FP_MACROS \cup OtherMacros

Option(S) == { None } \cup { Some(v) : v \in S }

\* The seven fields of EnvVars, each Option<String>.
EnvVars ==
  [ docs_rs : Option({V_docs_rs}),
    out_dir : Option({V_out_dir}),
    ffmpeg_include_dir : Option(V_include_dirs),
    ffmpeg_dll_path : Option(DllPaths),
    ffmpeg_pkg_config_path : Option({V_pkg_config_path}),
    ffmpeg_libs_dir : Option({V_libs_dir}),
    ffmpeg_binding_path : Option({V_binding_path}) ]

TargetOs == { "windows", "linux" }

\* -------------------------------------------------------------------- state
VARIABLES
  target_os,      \* cfg(target_os) the script was compiled for
  env_vars,       \* the EnvVars record main builds
  pc,             \* position of the run
  selected,       \* the linking functions main has called
  process_env,    \* PKG_CONFIG_PATH of the process environment (unset at start)
  cargo_out,      \* the lines printed for cargo, in order
  probes,         \* the names handed to pkg-config / vcpkg, in order
  paths,          \* the HashSet static_linking_with_pkg_config accumulates
  include_paths,  \* the Vec the probe adapter returned
  copy_calls,     \* the fs::copy calls made, in order
  generate_calls, \* the include-directory arguments of the generate_bindings calls
  builder,        \* the bindgen builder generate_bindings assembled
  macro_seen,     \* the last will_parse_macro call and its answer
  binding_file,   \* what happened to OUT_DIR/binding.rs
  panic           \* the panic that ended the run

vars == << target_os, env_vars, pc, selected, process_env, cargo_out, probes, paths,
           include_paths, copy_calls, generate_calls, builder, macro_seen, binding_file,
           panic >>

NoFile == [ writes |-> 0, path |-> << >>, kind |-> "absent", source |-> << >> ]
NoPanic == [ msg |-> "", arg |-> << >> ]

Init ==
  /\ target_os \in TargetOs
  /\ env_vars \in EnvVars
  /\ pc = "main"
  /\ selected = {}
  /\ process_env = None
  /\ cargo_out = << >>
  /\ probes = << >>
  /\ paths = {}
  /\ include_paths = << >>
  /\ copy_calls = << >>
  /\ generate_calls = << >>
  /\ builder = None
  /\ macro_seen = None
  /\ binding_file = NoFile
  /\ panic = NoPanic

\* ------------------------------------------------------------ pure helpers
\* Mutant: unwrap_or_default() in place of unwrap().
output_binding_path_or_default(ev) ==
  Some((IF is_some(ev.out_dir) THEN unwrap(ev.out_dir) ELSE << >>) \o S_slash \o S_binding_rs)

\* format!("{}/binding.rs", env_vars.out_dir.as_ref().unwrap()): None stands
\* for the panic of unwrap() on an absent OUT_DIR.
output_binding_path(ev) ==
  IF is_some(ev.out_dir) THEN Some(unwrap(ev.out_dir) \o S_slash \o S_binding_rs) ELSE None

\* Mutant: the dynamic-library path is looked at before the documentation flag.
select_linking_dll_first(ev) ==
  IF is_some(ev.ffmpeg_dll_path) THEN "dynamic_linking"
  ELSE IF is_some(ev.docs_rs) THEN "docs_rs_linking"
  ELSE "static_linking"

\* The branch main takes.
select_linking(ev) ==
  IF is_some(ev.docs_rs) THEN "docs_rs_linking"
  ELSE IF is_some(ev.ffmpeg_dll_path) THEN "dynamic_linking"
  ELSE "static_linking"

\* Mutant: a prefix test in place of set membership.
will_parse_macro_by_prefix(emitted_macro, name) ==
  IF \E m \in emitted_macro : StartsWith(name, m) THEN "Ignore" ELSE "Default"

\* FilterCargoCallbacks::will_parse_macro.
will_parse_macro(emitted_macro, name) ==
  IF name \in emitted_macro THEN "Ignore" ELSE "Default"

\* The set generate_bindings hands to FilterCargoCallbacks::new.
filter_callback == [ emitted_macro |-> { <<"F","P","_","N","A","N">>,
                                         <<"F","P","_","I","N","F","I","N","I","T","E">>,
                                         <<"F","P","_","Z","E","R","O">>,
                                         <<"F","P","_","S","U","B","N","O","R","M","A","L">>,
                                         <<"F","P","_","N","O","R","M","A","L">> } ]

\* Mutant: the separator is left out of the format string.
resolve_header_no_separator(ffmpeg_include_dir, header) ==
  IF is_some(ffmpeg_include_dir)
  THEN unwrap(ffmpeg_include_dir) \o header
  ELSE header

\* The closure mapping a header's short path to its full path.
resolve_header(ffmpeg_include_dir, header) ==
  IF is_some(ffmpeg_include_dir)
  THEN unwrap(ffmpeg_include_dir) \o S_slash \o header
  ELSE header

\* generate_bindings up to, not including, .generate(): the builder with its
\* parse callbacks, clang arguments and headers.
generate_bindings(ffmpeg_include_dir, headers) ==
  [ parse_callbacks |-> filter_callback,
    clang_args |-> IF is_some(ffmpeg_include_dir)
                   THEN << S_dash_I \o unwrap(ffmpeg_include_dir) \o S_slash >>
                   ELSE << >>,
    headers |-> [ i \in 1..Len(headers) |-> resolve_header(ffmpeg_include_dir, headers[i]) ] ]

\* The library name dynamic_linking derives from the path: the file stem, with
\* leading "lib" trimmed unless the target is windows.  None stands for the
\* panic of file_stem().unwrap().
ffmpeg_dll_name(os, ffmpeg_dll_path) ==
  LET stem == file_stem(ffmpeg_dll_path)
  IN IF ~is_some(stem) THEN None
     ELSE IF os = "windows" THEN stem
     ELSE Some(trim_start_matches(unwrap(stem), S_lib))

ffmpeg_dll_dir(ffmpeg_dll_path) == pop(ffmpeg_dll_path)

\* The name static_linking_with_pkg_config probes a library under.
probe_name(libname) == S_lib \o libname

\* Mutant: the set_var call is missing.
set_var_PKG_CONFIG_PATH_missing(ffmpeg_pkg_config_path) == None

\* The value static_linking_with_pkg_config stores in PKG_CONFIG_PATH.
set_var_PKG_CONFIG_PATH(ffmpeg_pkg_config_path) == Some(ffmpeg_pkg_config_path)

\* Binding source of each branch: what is copied, generated from, or the panic.
Prebuilt(p) == [ kind |-> "prebuilt", arg |-> p ]
Generate(d) == [ kind |-> "generate", arg |-> d ]
Fatal(m) == [ kind |-> "panic", arg |-> m ]

dynamic_binding_source(ev) ==
  IF is_some(ev.ffmpeg_binding_path) THEN Prebuilt(unwrap(ev.ffmpeg_binding_path))
  ELSE IF is_some(ev.ffmpeg_include_dir) THEN Generate(unwrap(ev.ffmpeg_include_dir))
  ELSE Fatal("No binding generation method is set!")

pkg_config_binding_source(ev, inc) ==
  IF is_some(ev.ffmpeg_binding_path) THEN Prebuilt(unwrap(ev.ffmpeg_binding_path))
  ELSE IF is_some(ev.ffmpeg_include_dir) THEN Generate(unwrap(ev.ffmpeg_include_dir))
  ELSE IF Len(inc) >= 1 THEN Generate(inc[1])
  ELSE Fatal("index out of bounds: the len is 0 but the index is 0")

libs_dir_binding_source(ev) ==
  IF is_some(ev.ffmpeg_binding_path) THEN Prebuilt(unwrap(ev.ffmpeg_binding_path))
  ELSE IF is_some(ev.ffmpeg_include_dir) THEN Generate(unwrap(ev.ffmpeg_include_dir))
  ELSE Fatal("No binding generation method is set!")

windows_binding_source(ev, inc) ==
  IF is_some(ev.ffmpeg_binding_path) THEN Prebuilt(unwrap(ev.ffmpeg_binding_path))
  ELSE IF Len(inc) >= 1 THEN Generate(inc[1])
  ELSE Fatal("index out of bounds: the len is 0 but the index is 0")

\* The non-windows branch of static_linking.
static_method(ev) ==
  IF is_some(ev.ffmpeg_pkg_config_path) THEN "pkg_config"
  ELSE IF is_some(ev.ffmpeg_libs_dir) THEN "libs_dir"
  ELSE "none"

\* The lines static_linking_with_libs_dir prints.
libs_dir_directives(library_names, ffmpeg_libs_dir) ==
  << [ key |-> "cargo:rustc-link-search=native=", value |-> ffmpeg_libs_dir ] >>
  \o [ i \in 1..Len(library_names) |->
         [ key |-> "cargo:rustc-link-lib=static=", value |-> library_names[i] ] ]

\* The lines dynamic_linking prints.
dynamic_directives(name, dir) ==
  << [ key |-> "cargo:rustc-link-lib=dylib=", value |-> name ],
     [ key |-> "cargo:rustc-link-search=native=", value |-> dir ] >>

\* The binding file after a write of the given kind.
written(file, path, kind, source) ==
  [ writes |-> file.writes + 1, path |-> path, kind |-> kind, source |-> source ]

\* All orders in which a HashSet may be iterated.
Orderings(S) ==
  { s \in [ 1..Cardinality(S) -> S ] : \A i, j \in 1..Cardinality(S) : i # j => s[i] # s[j] }

\* ------------------------------------------------------------------ actions
CopyOutcomes == { "ok", "err", "err_partial" }
GenerateOutcomes == { "ok", "parse_err", "write_err", "write_err_partial" }

\* A panic: the run ends.
Abort(msg, arg) == pc' = "fatal" /\ panic' = [ msg |-> msg, arg |-> arg ]

\* fs::copy(from, to).expect(..): a failed copy may or may not have touched `to`.
use_prebuilt_binding(from, to, outcome) ==
  /\ copy_calls' = Append(copy_calls, [ from |-> from, to |-> to ])
  /\ UNCHANGED << generate_calls, builder >>
  /\ IF outcome = "ok"
     THEN /\ binding_file' = written(binding_file, to, "copy", from)
          /\ pc' = "done"
          /\ panic' = panic
     ELSE /\ binding_file' = IF outcome = "err_partial"
                             THEN written(binding_file, to, "partial", from)
                             ELSE binding_file
          /\ Abort("Prebuilt binding file failed to be copied.", from)

\* The if / else-if chain that ends each linking function.
ResolveBinding(src, to, copy_outcome) ==
  IF src.kind = "prebuilt" THEN use_prebuilt_binding(src.arg, to, copy_outcome)
  ELSE IF src.kind = "generate"
  THEN /\ generate_calls' = Append(generate_calls, Some(src.arg))
       /\ builder' = Some(generate_bindings(Some(src.arg), HEADERS))
       /\ pc' = "bindgen"
       /\ UNCHANGED << copy_calls, binding_file, panic >>
  ELSE /\ Abort(src.arg, << >>)
       /\ UNCHANGED << copy_calls, generate_calls, builder, binding_file >>

UnwrapNone == "called Option::unwrap() on a None value"

main ==
  /\ pc = "main"
  /\ pc' = select_linking(env_vars)
  /\ selected' = selected \cup { select_linking(env_vars) }
  /\ UNCHANGED << target_os, env_vars, process_env, cargo_out, probes, paths,
                  include_paths, copy_calls, generate_calls, builder, macro_seen,
                  binding_file, panic >>

docs_rs_linking(copy_outcome) ==
  /\ pc = "docs_rs_linking"
  /\ LET to == output_binding_path(env_vars)
     IN IF ~is_some(to)
        THEN Abort(UnwrapNone, << >>) /\ UNCHANGED << copy_calls, generate_calls, builder, binding_file >>
        ELSE use_prebuilt_binding(S_src_binding_rs, unwrap(to), copy_outcome)
  /\ UNCHANGED << target_os, env_vars, selected, process_env, cargo_out, probes, paths,
                  include_paths, macro_seen >>

dynamic_linking(copy_outcome) ==
  /\ pc = "dynamic_linking"
  /\ LET ffmpeg_dll_path == unwrap(env_vars.ffmpeg_dll_path)
         to == output_binding_path(env_vars)
         name == ffmpeg_dll_name(target_os, ffmpeg_dll_path)
     IN IF ~is_some(to) \/ ~is_some(name)
        THEN /\ Abort(UnwrapNone, << >>)
             /\ UNCHANGED << cargo_out, copy_calls, generate_calls, builder, binding_file >>
        ELSE /\ cargo_out' = cargo_out
                   \o dynamic_directives(unwrap(name), ffmpeg_dll_dir(ffmpeg_dll_path))
             /\ ResolveBinding(dynamic_binding_source(env_vars), unwrap(to), copy_outcome)
  /\ UNCHANGED << target_os, env_vars, selected, process_env, probes, paths,
                  include_paths, macro_seen >>

\* vcpkg::Config::new().find_package("ffmpeg"): an error, or the package's
\* include directory.
VcpkgResults == { None } \cup { Some(<< d >>) : d \in ProbeIncludeDirs }
S_ffmpeg == <<"f","f","m","p","e","g">>

static_linking(vcpkg_result, copy_outcome) ==
  /\ pc = "static_linking"
  /\ LET to == output_binding_path(env_vars)
     IN IF ~is_some(to)
        THEN /\ Abort(UnwrapNone, << >>)
             /\ UNCHANGED << process_env, cargo_out, probes, include_paths, copy_calls, generate_calls,
                             builder, binding_file >>
        ELSE IF target_os = "windows"
        THEN \* static_linking_inner, then the windows block
             /\ probes' = Append(probes, S_ffmpeg)
             /\ UNCHANGED << process_env, cargo_out >>
             /\ IF ~is_some(vcpkg_result)
                THEN /\ Abort(UnwrapNone, S_ffmpeg)
                     /\ UNCHANGED << include_paths, copy_calls, generate_calls, builder, binding_file >>
                ELSE /\ include_paths' = unwrap(vcpkg_result)
                     /\ ResolveBinding(windows_binding_source(env_vars, unwrap(vcpkg_result)),
                                       unwrap(to), copy_outcome)
        ELSE IF static_method(env_vars) = "pkg_config"
        THEN \* static_linking_with_pkg_config up to its loop
             /\ process_env' = set_var_PKG_CONFIG_PATH(unwrap(env_vars.ffmpeg_pkg_config_path))
             /\ pc' = "probe"
             /\ UNCHANGED << cargo_out, probes, include_paths, copy_calls, generate_calls, builder,
                             binding_file, panic >>
        ELSE IF static_method(env_vars) = "libs_dir"
        THEN /\ cargo_out' = cargo_out
                   \o libs_dir_directives(LIBS, unwrap(env_vars.ffmpeg_libs_dir))
             /\ UNCHANGED << process_env, probes, include_paths >>
             /\ ResolveBinding(libs_dir_binding_source(env_vars), unwrap(to), copy_outcome)
        ELSE /\ Abort("No linking method set!", << >>)
             /\ UNCHANGED << process_env, cargo_out, probes, include_paths, copy_calls, generate_calls,
                             builder, binding_file >>
  /\ UNCHANGED << target_os, env_vars, selected, paths, macro_seen >>

\* Mutant: a library that is not found is skipped instead of ending the run.
probe_skipping_missing(result) ==
  /\ pc = "probe"
  /\ Len(probes) < Len(LIBS)
  /\ LET libname == LIBS[Len(probes) + 1]
     IN /\ probes' = Append(probes, probe_name(libname))
        /\ IF ~is_some(result)
           THEN UNCHANGED << cargo_out, paths, pc, panic >>
           ELSE /\ paths' = paths \cup unwrap(result)
                /\ cargo_out' = Append(cargo_out,
                     [ key |-> "pkg-config metadata of ", value |-> probe_name(libname) ])
                /\ UNCHANGED << pc, panic >>
  /\ UNCHANGED << target_os, env_vars, selected, process_env, include_paths, copy_calls,
                  generate_calls, builder, macro_seen, binding_file >>

\* One iteration of the loop of static_linking_with_pkg_config: the probe of
\* the next library fails (None) or reports include paths.
ProbeResults == { None } \cup { Some(ps) : ps \in SUBSET ProbeIncludeDirs }

probe(result) ==
  /\ pc = "probe"
  /\ Len(probes) < Len(LIBS)
  /\ LET libname == LIBS[Len(probes) + 1]
     IN /\ probes' = Append(probes, probe_name(libname))
        /\ IF ~is_some(result)
           THEN /\ Abort("not found!", libname)
                /\ UNCHANGED << cargo_out, paths >>
           ELSE /\ paths' = paths \cup unwrap(result)
                /\ cargo_out' = Append(cargo_out,
                     [ key |-> "pkg-config metadata of ", value |-> probe_name(libname) ])
                /\ UNCHANGED << pc, panic >>
  /\ UNCHANGED << target_os, env_vars, selected, process_env, include_paths, copy_calls, generate_calls,
                  builder, macro_seen, binding_file >>

\* The return of static_linking_with_pkg_config (the set collected into a Vec,
\* in the set's iteration order) and the rest of the package-metadata branch.
static_linking_after_probe(order, copy_outcome) ==
  /\ pc = "probe"
  /\ Len(probes) = Len(LIBS)
  /\ order \in Orderings(paths)
  /\ include_paths' = order
  /\ ResolveBinding(pkg_config_binding_source(env_vars, order),
                    unwrap(output_binding_path(env_vars)), copy_outcome)
  /\ UNCHANGED << target_os, env_vars, selected, process_env, cargo_out, probes, paths,
                  macro_seen >>

\* The parsing engine asks the installed callback about a macro.
bindgen_will_parse_macro(name) ==
  /\ pc = "bindgen"
  /\ macro_seen' = Some([ name |-> name,
                          behavior |-> will_parse_macro(
                             unwrap(builder).parse_callbacks.emitted_macro, name) ])
  /\ UNCHANGED << target_os, env_vars, pc, selected, process_env, cargo_out, probes,
                  paths, include_paths, copy_calls, generate_calls, builder, binding_file, panic >>

\* Mutant: the output file is opened before the parsing engine has succeeded.
binding_file_after_generate_early_open(file, to, src, outcome) ==
  IF outcome = "ok" THEN written(file, to, "generated", src)
  ELSE written(file, to, "partial", src)

\* The binding file after .generate() and .write_to_file(): untouched when
\* the engine fails, whole when both succeed; a failed write may leave a part.
binding_file_after_generate(file, to, src, outcome) ==
  IF outcome = "ok" THEN written(file, to, "generated", src)
  ELSE IF outcome = "write_err_partial" THEN written(file, to, "partial", src)
  ELSE file

\* .generate().expect(..).write_to_file(output_binding_path).expect(..)
bindgen_generate(outcome) ==
  /\ pc = "bindgen"
  /\ LET to == unwrap(output_binding_path(env_vars))
         src == unwrap(generate_calls[Len(generate_calls)])
     IN /\ binding_file' = binding_file_after_generate(binding_file, to, src, outcome)
        /\ IF outcome = "parse_err" THEN Abort("Binding generation failed.", << >>)
           ELSE IF outcome = "ok" THEN pc' = "done" /\ panic' = panic
           ELSE Abort("Cannot write binding to file.", to)
  /\ UNCHANGED << target_os, env_vars, selected, process_env, cargo_out, probes, paths,
                  include_paths, copy_calls, generate_calls, builder, macro_seen >>

Next ==
  \/ main
  \/ \E c \in CopyOutcomes : docs_rs_linking(c)
  \/ \E c \in CopyOutcomes : dynamic_linking(c)
  \/ \E v \in VcpkgResults, c \in CopyOutcomes : static_linking(v, c)
  \/ \E r \in ProbeResults : probe(r)
  \/ \E o \in Orderings(paths), c \in CopyOutcomes : static_linking_after_probe(o, c)
  \/ \E n \in MacroNames : bindgen_will_parse_macro(n)
  \/ \E g \in GenerateOutcomes : bindgen_generate(g)

Spec == Init /\ [][Next]_vars

\* ------------------------------------------------------------------- claims
Terminated == pc \in { "done", "fatal" }
MsgNoBinding == "No binding generation method is set!"
MsgNoLinking == "No linking method set!"
\* The include directory a generate_bindings call was given.
GeneratedFrom == unwrap(generate_calls[1])
\* The run is in the package-metadata branch of static_linking.
InPkgConfigBranch ==
  /\ "static_linking" \in selected
  /\ pc # "static_linking"
  /\ target_os # "windows"
  /\ is_some(env_vars.out_dir)
  /\ is_some(env_vars.ffmpeg_pkg_config_path)

\* C1: once main has branched, exactly one linking function has been selected:
\* docs_rs_linking whenever DOCS_RS is present, whatever else is; otherwise
\* dynamic_linking whenever FFMPEG_DLL_PATH is present; otherwise static_linking.
\* Only the selected function's effects are ever seen.
C1_StrategyByPriority ==
  /\ pc = "main" => selected = {}
  /\ pc # "main" =>
       /\ Cardinality(selected) = 1
       /\ is_some(env_vars.docs_rs) => "docs_rs_linking" \in selected
       /\ ~is_some(env_vars.docs_rs) /\ is_some(env_vars.ffmpeg_dll_path)
            => "dynamic_linking" \in selected
       /\ ~is_some(env_vars.docs_rs) /\ ~is_some(env_vars.ffmpeg_dll_path)
            => "static_linking" \in selected
  /\ (\E i \in 1..Len(copy_calls) : copy_calls[i].from = S_src_binding_rs)
       => is_some(env_vars.docs_rs)
  /\ (\E i \in 1..Len(cargo_out) : cargo_out[i].key = "cargo:rustc-link-lib=dylib=")
       => ~is_some(env_vars.docs_rs) /\ is_some(env_vars.ffmpeg_dll_path)
  /\ probes # << >> => ~is_some(env_vars.docs_rs) /\ ~is_some(env_vars.ffmpeg_dll_path)

\* C1 witness: a finished documentation build although a dynamic-library path,
\* a package-metadata path and a static-library directory were all present.
C1_Witness ==
  /\ pc = "done"
  /\ selected = { "docs_rs_linking" }
  /\ is_some(env_vars.ffmpeg_dll_path)
  /\ is_some(env_vars.ffmpeg_pkg_config_path)
  /\ is_some(env_vars.ffmpeg_libs_dir)
  /\ binding_file.source = S_src_binding_rs

\* C2 (as claimed): in every branch that resolves a binding source, a present
\* prebuilt path is copied; else a present explicit include directory is what
\* bindings are generated from; a discovered include path is used only when
\* neither is present.
C2_SamePriorityInEveryBranch ==
  (selected \cap { "dynamic_linking", "static_linking" } # {}) =>
    /\ copy_calls # << >> =>
         /\ is_some(env_vars.ffmpeg_binding_path)
         /\ copy_calls[1].from = unwrap(env_vars.ffmpeg_binding_path)
    /\ generate_calls # << >> =>
         /\ ~is_some(env_vars.ffmpeg_binding_path)
         /\ is_some(env_vars.ffmpeg_include_dir)
              => GeneratedFrom = unwrap(env_vars.ffmpeg_include_dir)
         /\ ~is_some(env_vars.ffmpeg_include_dir) => GeneratedFrom \in ProbeIncludeDirs

\* C3 (as claimed): on a non-windows target the name in the "link dynamic
\* library" directive keeps neither the lib prefix nor the .so suffix of the
\* file name, and the search directory is the directory holding the file.
C3_NameKeepsNoPrefixOrSuffix ==
  (target_os # "windows" /\ "dynamic_linking" \in selected /\ Len(cargo_out) >= 2) =>
    /\ cargo_out[1].key = "cargo:rustc-link-lib=dylib="
    /\ ~StartsWith(cargo_out[1].value, S_lib)
    /\ ~EndsWith(cargo_out[1].value, <<".","s","o">>)
    /\ cargo_out[2].key = "cargo:rustc-link-search=native="
    /\ cargo_out[2].value = pop(unwrap(env_vars.ffmpeg_dll_path))

C5_BindingWrittenOnce ==
  /\ binding_file.writes <= 1
  /\ pc = "done" =>
       /\ binding_file.writes = 1
       /\ binding_file.kind \in { "copy", "generated" }
       /\ binding_file.path = unwrap(env_vars.out_dir) \o S_slash \o S_binding_rs
  /\ ~Terminated => binding_file = NoFile
  /\ (pc = "fatal" /\ panic.msg \in { MsgNoBinding, MsgNoLinking, "not found!",
                                      "Binding generation failed.", UnwrapNone,
                                      "index out of bounds: the len is 0 but the index is 0" })
       => binding_file = NoFile

\* C5 witness: the parsing engine failed after a full round of probing, and no
\* binding file exists.
C5_Witness ==
  /\ pc = "fatal"
  /\ panic.msg = "Binding generation failed."
  /\ Len(probes) = Len(LIBS)
  /\ is_some(builder)
  /\ binding_file = NoFile

\* Some binding source is available to the run's branch.
BindingSourceAvailable ==
  \/ is_some(env_vars.ffmpeg_binding_path)
  \/ is_some(env_vars.ffmpeg_include_dir)
  \/ include_paths # << >>
\* A linking method was selected and carried out.
LinkingMethodSelected ==
  \/ "dynamic_linking" \in selected /\ pc # "dynamic_linking"
  \/ /\ "static_linking" \in selected /\ pc # "static_linking"
     /\ \/ target_os = "windows" /\ include_paths # << >>
        \/ target_os # "windows" /\ static_method(env_vars) = "libs_dir"
        \/ target_os # "windows" /\ static_method(env_vars) = "pkg_config"
             /\ Len(cargo_out) = Len(LIBS)

\* C6 (as claimed, for runs that have an output directory and a library file
\* name): a finished run ended with "No linking method set!" exactly when
\* static linking was selected off windows with neither a package-metadata
\* path nor a static-library directory; and a finished run that selected a
\* linking method but has no binding source ended with "No binding generation
\* method is set!".
C6_FatalCauseClassified ==
  (Terminated /\ is_some(env_vars.out_dir) /\ panic.msg # UnwrapNone) =>
    /\ (pc = "fatal" /\ panic.msg = MsgNoLinking)
         <=> /\ "static_linking" \in selected
             /\ target_os # "windows"
             /\ static_method(env_vars) = "none"
    /\ (LinkingMethodSelected /\ ~BindingSourceAvailable)
         => pc = "fatal" /\ panic.msg = MsgNoBinding

\* C7: whenever the parsing engine asks about a macro, the answer is Ignore for
\* each of FP_NAN, FP_INFINITE, FP_ZERO, FP_SUBNORMAL and FP_NORMAL and Default
\* for every other name; the suppression set every builder carries is exactly
\* these five names.
C7_FilterExactlyFive ==
  /\ is_some(macro_seen) =>
       /\ unwrap(macro_seen).name \in FP_MACROS => unwrap(macro_seen).behavior = "Ignore"
       /\ unwrap(macro_seen).name \notin FP_MACROS => unwrap(macro_seen).behavior = "Default"
  /\ is_some(builder) =>
       /\ unwrap(builder).parse_callbacks.emitted_macro = FP_MACROS
       /\ Cardinality(unwrap(builder).parse_callbacks.emitted_macro) = 5

\* C7 witness: the engine asked about FP_NANS, a name that only starts like a
\* reserved one, and was told Default.
C7_Witness ==
  /\ is_some(macro_seen)
  /\ unwrap(macro_seen).name = <<"F","P","_","N","A","N","S">>
  /\ unwrap(macro_seen).behavior = "Default"

\* The number of probes that succeeded: each one printed its metadata.
ProbesSucceeded == Len(cargo_out)

\* C8: in the package-metadata branch the libraries are probed in registry
\* order, each as lib<name>; a binding source is resolved, and the run can be
\* done, only after all seven probes succeeded; a failed probe ends the run at
\* once, fatal, naming the library, with no copy, no generation and no binding
\* file, whatever FFMPEG_BINDING_PATH and FFMPEG_INCLUDE_DIR hold.
C8_ProbingAllOrNothing ==
  InPkgConfigBranch =>
    /\ Len(probes) <= Len(LIBS)
    /\ \A i \in 1..Len(probes) : probes[i] = S_lib \o LIBS[i]
    /\ ProbesSucceeded \in { Len(probes), Len(probes) - 1 }
    /\ (copy_calls # << >> \/ generate_calls # << >> \/ is_some(builder) \/ pc = "done"
          \/ include_paths # << >>)
         => ProbesSucceeded = Len(LIBS)
    /\ ProbesSucceeded < Len(probes) <=> (pc = "fatal" /\ panic.msg = "not found!")
    /\ ProbesSucceeded < Len(probes) =>
         /\ panic.arg = LIBS[Len(probes)]
         /\ copy_calls = << >>
         /\ generate_calls = << >>
         /\ builder = None
         /\ binding_file = NoFile

\* C8 witness: the fourth probe failed although a prebuilt binding and an
\* include directory were configured; the run is fatal naming avformat.
C8_Witness ==
  /\ InPkgConfigBranch
  /\ pc = "fatal"
  /\ panic = [ msg |-> "not found!", arg |-> <<"a","v","f","o","r","m","a","t">> ]
  /\ Len(probes) = 4
  /\ is_some(env_vars.ffmpeg_binding_path)
  /\ is_some(env_vars.ffmpeg_include_dir)
  /\ binding_file = NoFile

C9_EnvState ==
  /\ process_env # None <=> InPkgConfigBranch
  /\ process_env # None => process_env = env_vars.ffmpeg_pkg_config_path
  /\ (probes # << >> /\ target_os # "windows") => process_env # None
  /\ (pc = "fatal" /\ ~InPkgConfigBranch) => process_env = None

C10_NoOutDirFatalBeforeEffects ==
  ~is_some(env_vars.out_dir) =>
    /\ pc \in { "main", "docs_rs_linking", "dynamic_linking", "static_linking", "fatal" }
    /\ pc = "fatal" => panic.msg = UnwrapNone
    /\ cargo_out = << >>
    /\ probes = << >>
    /\ process_env = None
    /\ copy_calls = << >>
    /\ generate_calls = << >>
    /\ builder = None
    /\ binding_file = NoFile

\* C10 witness: a dynamic build with a prebuilt binding and an include
\* directory configured, but no OUT_DIR, has panicked.
C10_Witness ==
  /\ ~is_some(env_vars.out_dir)
  /\ pc = "fatal"
  /\ selected = { "dynamic_linking" }
  /\ is_some(env_vars.ffmpeg_binding_path)
  /\ is_some(env_vars.ffmpeg_include_dir)
  /\ cargo_out = << >>
====
